---- MODULE Spec2Model ----
(***************************************************************************)
(* Model of pymaptools/graph.py: the Bigraph / Graph classes, their edge   *)
(* algebra, connected-component decomposition and clique enumerators.      *)
(*                                                                         *)
(* A graph object is a record [cls, U2V, V2U, edges].  The three dicts are *)
(* Python defaultdicts: functions with a finite domain (the keys) whose    *)
(* __getitem__ inserts the factory's value under a missing key.  A Graph   *)
(* keeps ONE dict under the two names U2V and V2U (graph.py:405).          *)
(***************************************************************************)
EXTENDS Integers, Sequences, FiniteSets, TLC

\* ---------------------------------------------------------------- bounds
\* vertices are 1..MaxNode (U side and V side of a Bigraph alike)
MaxNode == 3
\* edge weights passed to add_edge are 1..MaxWeight; no stored weight exceeds it
MaxWeight == 2
\* a graph grown alone (InsertEdge, InsertClique) holds at most MaxEdges keys
MaxEdges == 4
\* the two operands of the algebra hold at most MaxPairEdges keys together
MaxPairEdges == 2

\* the history of calls made on one graph holds at most MaxCalls calls
MaxCalls == 3

\* the objects given to a UnionFind are 1..MaxObj
MaxObj == 3
\* union takes 0..MaxArgs arguments
MaxArgs == 3

\* a RangeQueue is pushed the first MaxIdx indices of its range
MaxIdx == 4

Nodes == 1..MaxNode
\* Python's None where a vertex is expected
None == 0
Weights == 1..MaxWeight
\* weight arguments of any sign, zero included
IntWeights == -1..1
\* what a caller may pass as an endpoint of an edge
Endpoints == Nodes \cup {None}

\* the default of add_edge's and add_clique's weight argument
DefaultWeight == 1
\* the default of Graph.find_cliques' min_clique_size argument
DefaultMinCliqueSize == 3

VARIABLES
    kind,   \* the class of the graphs of this run: "Bigraph" or "Graph"
    A,      \* a graph object (left operand, source of the generators)
    B,      \* a second graph object (right operand)
    res,    \* the last algebra operation: its operands before, and its result
    gen,    \* a find_connected_components() generator
    bc,     \* a Bigraph.find_cliques() generator
    gc,     \* a Graph.find_cliques() generator
    log,    \* the calls made on A so far, each with what it raised
    ren,    \* the last rename_nodes call on A: its renamers and its outcome
    der,    \* the last construction from a base object and its outcome
    wt,     \* the weight_type the graphs of this run were constructed with
    uf,     \* a UnionFind object, with the calls made on it
    rq      \* a RangeQueue object and its retrieve() generator

\* the objects outside the edge algebra and the graph generators
ext == <<log, ren, der, wt, uf, rq>>

vars == <<kind, A, B, res, gen, bc, gc, log, ren, der, wt, uf, rq>>

\* ------------------------------------------------------------ dictionaries
EmptyDict == [k \in {} |-> 0]

Keys(d) == DOMAIN d

\* d[k] = v
DictSet(d, k, v) == [x \in (DOMAIN d) \cup {k} |-> IF x = k THEN v ELSE d[x]]

\* dict.get(k, default): never inserts
DictGet(d, k, default) == IF k \in DOMAIN d THEN d[k] ELSE default

\* defaultdict.__getitem__: the value read ...
DefaultValue(d, k, zero) == IF k \in DOMAIN d THEN d[k] ELSE zero

\* ... and the dict after the read (a missing key is inserted)
DefaultTouch(d, k, zero) == IF k \in DOMAIN d THEN d ELSE DictSet(d, k, zero)

\* the orders in which a for loop may visit the members of a set
RECURSIVE Orders(_)
Orders(S) ==
    IF S = {} THEN {<<>>}
    ELSE UNION {{<<x>> \o s : s \in Orders(S \ {x})} : x \in S}

\* ------------------------------------------------------- graph construction
\* Bigraph.__init__ / Graph.__init__ with base=None
NewGraph(cls) == [cls |-> cls, U2V |-> EmptyDict, V2U |-> EmptyDict,
                  edges |-> EmptyDict]

\* Bigraph.make_edge / Graph.make_edge
make_edge(g, u, v) ==
    IF g.cls = "Graph"
    THEN (IF u <= v THEN <<u, v>> ELSE <<v, u>>)
    ELSE <<u, v>>

\* Bigraph._map_edge (endpoints are not None here: see the actions' guards)
map_edge(g, edge) ==
    LET u == edge[1]
        v == edge[2]
        fwd == DictSet(g.U2V, u, DefaultValue(g.U2V, u, {}) \cup {v})
    IN  IF g.cls = "Graph"
        THEN \* U2V and V2U are one dict: the second add sees the first
             LET both == DictSet(fwd, v, DefaultValue(fwd, v, {}) \cup {u})
             IN  [g EXCEPT !.U2V = both, !.V2U = both]
        ELSE [g EXCEPT !.U2V = fwd,
                       !.V2U = DictSet(g.V2U, v,
                                       DefaultValue(g.V2U, v, {}) \cup {u})]

\* _store_weight with = in place of +=
store_weight_overwrite(g, edge, weight) ==
    [g EXCEPT !.edges = DictSet(@, edge, weight)]

\* Bigraph._store_weight
store_weight(g, edge, weight) ==
    [g EXCEPT !.edges = DictSet(@, edge, DefaultValue(@, edge, 0) + weight)]

\* Graph._store_weight_sorted; for a Bigraph the decorator rename_store_weight
\* makes it _store_weight
store_weight_sorted(g, edge, weight) ==
    IF g.cls = "Graph"
    THEN store_weight(g, make_edge(g, edge[1], edge[2]), weight)
    ELSE store_weight(g, edge, weight)

\* Bigraph.add_edge
add_edge(g, u, v, weight) ==
    store_weight_sorted(map_edge(g, <<u, v>>), <<u, v>>, weight)

\* the add_edge calls of add_clique's loop over itertools.product; the listed
\* vertices are duplicate-free, so the product is a set of pairs
RECURSIVE add_edges(_, _, _)
add_edges(g, pairs, weight) ==
    IF pairs = {} THEN g
    ELSE LET p == CHOOSE q \in pairs : TRUE
         IN  add_edges(add_edge(g, p[1], p[2], weight), pairs \ {p}, weight)

\* Bigraph.add_clique((unodes, vnodes), weight)
Bigraph_add_clique(g, unodes, vnodes, weight) ==
    add_edges(g, unodes \X vnodes, weight)

\* Graph.add_clique(clique, weight): product(clique, clique)
Graph_add_clique(g, clique, weight) ==
    add_edges(g, clique \X clique, weight)

\* Bigraph.U, Bigraph.V
UOf(g) == Keys(g.U2V)
VOf(g) == Keys(g.V2U)

\* Bigraph.__len__
GraphLen(g) == Cardinality(Keys(g.edges))

\* Bigraph.__eq__
Eq(g, h) == g.edges = h.edges

\* ---------------------------------------------- find_connected_components
\* The traversal state between two yields: the source graph (self), the
\* component under construction, the vertices not yet visited, the stack.
FccState(g, comp, remaining, stack) ==
    [g |-> g, comp |-> comp, remaining |-> remaining, stack |-> stack]

\* Bigraph.find_connected_components: remaining = {(0, u)} + {(1, v)}
Bigraph_fcc_remaining(g) ==
    {<<0, u>> : u \in UOf(g)} \cup {<<1, v>> : v \in VOf(g)}

\* a traversal that marks a neighbour visited and forgets to push it
fcc_push_forgotten(stack, remaining, item) == stack

\* `remaining.remove(x)` succeeded: stack.append(x)
fcc_push(stack, remaining, item) ==
    IF item \in remaining THEN Append(stack, item) ELSE stack

\* a traversal that adds an edge only when it leads to an unvisited vertex
Bigraph_fcc_neighbor_tree(st, idx, node, neighbor) ==
    LET edge == IF idx = 0 THEN <<node, neighbor>> ELSE <<neighbor, node>>
        edge_weight == DefaultValue(st.g.edges, edge, 0)
        g1 == [st.g EXCEPT !.edges = DefaultTouch(@, edge, 0)]
        neighbor_tuple == <<1 - idx, neighbor>>
    IN  FccState(g1,
                 IF neighbor_tuple \in st.remaining
                 THEN add_edge(st.comp, edge[1], edge[2], edge_weight)
                 ELSE st.comp,
                 st.remaining \ {neighbor_tuple},
                 fcc_push(st.stack, st.remaining, neighbor_tuple))

\* the body of `for neighbor in d[idx][node]` (graph.py:321-332)
Bigraph_fcc_neighbor(st, idx, node, neighbor) ==
    LET edge == IF idx = 0 THEN <<node, neighbor>> ELSE <<neighbor, node>>
        edge_weight == DefaultValue(st.g.edges, edge, 0)
        g1 == [st.g EXCEPT !.edges = DefaultTouch(@, edge, 0)]
        neighbor_tuple == <<1 - idx, neighbor>>
    IN  FccState(g1,
                 add_edge(st.comp, edge[1], edge[2], edge_weight),
                 st.remaining \ {neighbor_tuple},
                 fcc_push(st.stack, st.remaining, neighbor_tuple))

RECURSIVE Bigraph_fcc_neighbors(_, _, _, _)
Bigraph_fcc_neighbors(st, idx, node, order) ==
    IF order = <<>> THEN st
    ELSE Bigraph_fcc_neighbors(Bigraph_fcc_neighbor(st, idx, node, Head(order)),
                               idx, node, Tail(order))

\* `while stack:` (graph.py:313-332): the states it can end in, one per order
\* in which the neighbour sets may be iterated
RECURSIVE Bigraph_fcc_stack(_)
Bigraph_fcc_stack(st) ==
    IF st.stack = <<>> THEN {st}
    ELSE LET top == st.stack[Len(st.stack)]
             idx == top[1]
             node == top[2]
             \* d[idx][node] is a defaultdict read
             g1 == IF idx = 0
                   THEN [st.g EXCEPT !.U2V = DefaultTouch(@, node, {})]
                   ELSE [st.g EXCEPT !.V2U = DefaultTouch(@, node, {})]
             nbrs == IF idx = 0 THEN g1.U2V[node] ELSE g1.V2U[node]
             st1 == FccState(g1, st.comp, st.remaining,
                             SubSeq(st.stack, 1, Len(st.stack) - 1))
         IN  UNION {Bigraph_fcc_stack(Bigraph_fcc_neighbors(st1, idx, node, o))
                    : o \in Orders(nbrs)}

\* Graph.find_connected_components: remaining = set(self.V)
Graph_fcc_remaining(g) == VOf(g)

\* the body of `for u in v2u[v]` (graph.py:482-491)
Graph_fcc_neighbor(st, v, u) ==
    LET edge_weight == DefaultValue(st.g.edges, <<u, v>>, 0)
        g1 == [st.g EXCEPT !.edges = DefaultTouch(@, <<u, v>>, 0)]
    IN  FccState(g1,
                 add_edge(st.comp, u, v, edge_weight),
                 st.remaining \ {u},
                 fcc_push(st.stack, st.remaining, u))

RECURSIVE Graph_fcc_neighbors(_, _, _)
Graph_fcc_neighbors(st, v, order) ==
    IF order = <<>> THEN st
    ELSE Graph_fcc_neighbors(Graph_fcc_neighbor(st, v, Head(order)),
                             v, Tail(order))

\* `while stack:` (graph.py:477-491)
RECURSIVE Graph_fcc_stack(_)
Graph_fcc_stack(st) ==
    IF st.stack = <<>> THEN {st}
    ELSE LET v == st.stack[Len(st.stack)]
             \* v2u[v] is a defaultdict read of the dict shared by U2V and V2U
             d == DefaultTouch(st.g.V2U, v, {})
             g1 == [st.g EXCEPT !.U2V = d, !.V2U = d]
             st1 == FccState(g1, st.comp, st.remaining,
                             SubSeq(st.stack, 1, Len(st.stack) - 1))
         IN  UNION {Graph_fcc_stack(Graph_fcc_neighbors(st1, v, o))
                    : o \in Orders(d[v])}

\* the vertices a first next() starts from
fcc_remaining(g) ==
    IF g.cls = "Graph" THEN Graph_fcc_remaining(g) ELSE Bigraph_fcc_remaining(g)

\* one pass of `while remaining:` up to its yield, started at `start`
fcc_component(g, remaining, start) ==
    LET st == FccState(g, NewGraph(g.cls), remaining \ {start}, <<start>>)
    IN  IF g.cls = "Graph" THEN Graph_fcc_stack(st) ELSE Bigraph_fcc_stack(st)

\* ------------------------------------------------------------ graph algebra
\* an intersection that keeps the left operand's weight
MinLeft(a, b) == a

\* min(...) of __and__ (graph.py:160)
Min(a, b) == IF a <= b THEN a ELSE b

\* the dict after dict.get(k, default): get() leaves it alone
DictAfterGet(d, k, default) == d

AlgState(g, dict1, dict2) == [g |-> g, dict1 |-> dict1, dict2 |-> dict2]

\* `for e in edge_intersection:` of __and__ (graph.py:158-161); the passes
\* write distinct keys of g, so their order does not show in the result
RECURSIVE and_loop(_, _)
and_loop(st, todo) ==
    IF todo = {} THEN st
    ELSE LET e == CHOOSE x \in todo : TRUE
             val == Min(DictGet(st.dict1, e, 0), DictGet(st.dict2, e, 0))
         IN  and_loop(AlgState(store_weight(map_edge(st.g, e), e, val),
                               DictAfterGet(st.dict1, e, 0),
                               DictAfterGet(st.dict2, e, 0)),
                      todo \ {e})

\* Bigraph.__and__, started on the instance g = self.__class__()
Bigraph_and(g, self, other) ==
    and_loop(AlgState(g, self.edges, other.edges),
             Keys(self.edges) \cap Keys(other.edges))

\* `for e in edge_union:` of __or__ (graph.py:177-180)
RECURSIVE or_loop(_, _)
or_loop(st, todo) ==
    IF todo = {} THEN st
    ELSE LET e == CHOOSE x \in todo : TRUE
             val == DictGet(st.dict1, e, 0) + DictGet(st.dict2, e, 0)
         IN  or_loop(AlgState(store_weight(map_edge(st.g, e), e, val),
                              DictAfterGet(st.dict1, e, 0),
                              DictAfterGet(st.dict2, e, 0)),
                     todo \ {e})

\* a union that walks the left operand's edges only
Bigraph_or_left(g, self, other) ==
    or_loop(AlgState(g, self.edges, other.edges), Keys(self.edges))

\* Bigraph.__or__
Bigraph_or(g, self, other) ==
    or_loop(AlgState(g, self.edges, other.edges),
            Keys(self.edges) \cup Keys(other.edges))

\* `for e in edge_difference:` of __sub__ (graph.py:192-194); dict1[e] is a
\* defaultdict read
RECURSIVE sub_loop(_, _)
sub_loop(st, todo) ==
    IF todo = {} THEN st
    ELSE LET e == CHOOSE x \in todo : TRUE
             val == DefaultValue(st.dict1, e, 0)
         IN  sub_loop(AlgState(store_weight(map_edge(st.g, e), e, val),
                               DefaultTouch(st.dict1, e, 0),
                               st.dict2),
                      todo \ {e})

\* Bigraph.__sub__
Bigraph_sub(g, self, other) ==
    sub_loop(AlgState(g, self.edges, other.edges),
             Keys(self.edges) \ Keys(other.edges))

\* the operator method behind &, | and -
Operate(op, g, self, other) ==
    CASE op = "and" -> Bigraph_and(g, self, other)
      [] op = "or"  -> Bigraph_or(g, self, other)
      [] op = "sub" -> Bigraph_sub(g, self, other)

\* Bigraph.from_components: reduce(operator.or_, components, cls()), from the
\* i-th component on
RECURSIVE from_components(_, _, _, _)
from_components(cls, acc, components, i) ==
    IF i > Len(components) THEN acc
    ELSE from_components(cls,
                         Bigraph_or(NewGraph(cls), acc, components[i]).g,
                         components, i + 1)

\* an operator that builds its result in the left operand (g = self)
ResultIsSelf(selfName) == selfName

\* `g = self.__class__()` in the operators: the object the result is built in
\* ("R" is an object of its own, "A" and "B" are the operands)
ResultObject(selfName) == "R"

\* ------------------------------------------------- Bigraph.find_cliques
\* a frame (L, R, P, Q) of the stack; P is a list, the others are sets
BcFrame(L, R, P, Q) == [L |-> L, R |-> R, P |-> P, Q |-> Q]

NoBc == [status |-> "none", pc |-> "outer", stack |-> <<>>,
         cur |-> BcFrame({}, {}, <<>>, {}), out |-> <<>>]

\* v2u[v] & L_prime
bc_Nv(v2u, v, L_prime) == DefaultValue(v2u, v, {}) \cap L_prime

\* `for v in Q:` (graph.py:368-379): no vertex of Q is adjacent to all of
\* L_prime
bc_is_maximal(v2u, Q, L_prime) ==
    \A v \in Q :
        Cardinality(bc_Nv(v2u, v, L_prime)) # Cardinality(L_prime)

\* Q_prime after `for v in Q:` ran to its end
bc_Q_prime(v2u, Q, L_prime) ==
    {v \in Q : bc_Nv(v2u, v, L_prime) # {}}

\* an extension that absorbs no candidate
bc_R_prime_bare(v2u, R, x, P, L_prime) == R \cup {x}

\* R_prime after `for v in P:` (graph.py:362, 381-385)
bc_R_prime(v2u, R, x, P, L_prime) ==
    (R \cup {x}) \cup
    {P[i] : i \in {j \in 1..Len(P) :
          Cardinality(bc_Nv(v2u, P[j], L_prime)) = Cardinality(L_prime)}}

\* a search that never descends
bc_P_prime_none(v2u, P, L_prime) == <<>>

\* a P_prime that keeps the candidates already absorbed into R_prime (`if`
\* in place of `elif`)
RECURSIVE bc_P_prime_keep_absorbed(_, _, _)
bc_P_prime_keep_absorbed(v2u, P, L_prime) ==
    IF P = <<>> THEN <<>>
    ELSE LET v == Head(P)
             Nv == bc_Nv(v2u, v, L_prime)
             rest == bc_P_prime_keep_absorbed(v2u, Tail(P), L_prime)
         IN  IF Nv # {} THEN <<v>> \o rest ELSE rest

\* P_prime after `for v in P:` (graph.py:365, 381-389), in P's order
RECURSIVE bc_P_prime(_, _, _)
bc_P_prime(v2u, P, L_prime) ==
    IF P = <<>> THEN <<>>
    ELSE LET v == Head(P)
             Nv == bc_Nv(v2u, v, L_prime)
             rest == bc_P_prime(v2u, Tail(P), L_prime)
         IN  IF Cardinality(Nv) # Cardinality(L_prime) /\ Nv # {}
             THEN <<v>> \o rest ELSE rest

\* a pass that reads the last candidate and leaves it in P (P[-1] in place
\* of P.pop())
bc_iteration_peek(g, f) ==
    LET v2u == g.V2U
        x == f.P[Len(f.P)]
        P == SubSeq(f.P, 1, Len(f.P) - 1)
        L_prime == DefaultValue(v2u, x, {}) \cap f.L
        is_maximal == bc_is_maximal(v2u, f.Q, L_prime)
        R_prime == bc_R_prime(v2u, f.R, x, P, L_prime)
        P_prime == bc_P_prime(v2u, P, L_prime)
        Q_prime == bc_Q_prime(v2u, f.Q, L_prime)
    IN  [frame |-> BcFrame(f.L, f.R, f.P, f.Q \cup {x}),
         yields |-> IF is_maximal THEN << <<L_prime, R_prime>> >> ELSE <<>>,
         pushes |-> IF is_maximal /\ P_prime # <<>>
                    THEN <<BcFrame(L_prime, R_prime, P_prime, Q_prime)>>
                    ELSE <<>>]

\* one pass of `while P:` (graph.py:359-394) on the frame f: the frame after
\* it, what it yields and what it pushes
bc_iteration(g, f) ==
    LET v2u == g.V2U
        x == f.P[Len(f.P)]
        P == SubSeq(f.P, 1, Len(f.P) - 1)
        L_prime == DefaultValue(v2u, x, {}) \cap f.L
        is_maximal == bc_is_maximal(v2u, f.Q, L_prime)
        R_prime == bc_R_prime(v2u, f.R, x, P, L_prime)
        P_prime == bc_P_prime(v2u, P, L_prime)
        Q_prime == bc_Q_prime(v2u, f.Q, L_prime)
    IN  [frame |-> BcFrame(f.L, f.R, P, f.Q \cup {x}),
         yields |-> IF is_maximal THEN << <<L_prime, R_prime>> >> ELSE <<>>,
         pushes |-> IF is_maximal /\ P_prime # <<>>
                    THEN <<BcFrame(L_prime, R_prime, P_prime, Q_prime)>>
                    ELSE <<>>]

\* --------------------------------------------------- Graph.find_cliques
\* A frame of the stack.  candidates and not_set are set OBJECTS: the frames
\* pushed at graph.py:554-556 hold the very sets of the frame being worked
\* on, which goes on changing them.  `ref` names the pair of set objects of
\* a frame in gc.heap; frames with the same ref share their sets.
GcFrame(compsub, ref, nd, disc) ==
    [compsub |-> compsub, ref |-> ref, nd |-> nd, disc |-> disc]

NoGc == [status |-> "none", pc |-> "outer", k |-> 0, disc_num |-> 0,
         stack |-> <<>>, heap |-> <<>>,
         cur |-> GcFrame({}, 0, None, 0), todo |-> <<>>, out |-> <<>>]

\* a gate that forgets the `not` set
gc_accept_any_not(compsub, candidates, not_set, min_clique_size) ==
    candidates = {} /\ Cardinality(compsub) >= min_clique_size

\* `if not c_candidates and not c_not and len(c_compsub) >= min_clique_size`
gc_accept(compsub, candidates, not_set, min_clique_size) ==
    candidates = {} /\ not_set = {} /\ Cardinality(compsub) >= min_clique_size

\* c_candidates & Nu
gc_new_candidates(candidates, Nu) == candidates \cap Nu

\* a child frame that starts with an empty `not` set
gc_new_not_empty(not_set, Nu) == {}

\* c_not & Nu
gc_new_not(not_set, Nu) == not_set \cap Nu

\* the (pivot, disconnection count) a child frame may be pushed with
\* (graph.py:535-549); the empty set when no child is pushed
gc_child(v2u, disc_num, c_nd, c_disc_num, new_candidates, new_not) ==
    IF c_nd = None
    THEN {<<c_nd, c_disc_num>>}
    ELSE IF c_nd \in new_not
    THEN (IF c_disc_num - 1 > 0 THEN {<<c_nd, c_disc_num - 1>>} ELSE {})
    ELSE \* `for cand_nd in new_not:` keeps the first vertex, in the set's
         \* order, with the fewest candidates it is not adjacent to
         LET cnt(c) == Cardinality(new_candidates \ DefaultValue(v2u, c, {}))
             better == {c \in new_not : cnt(c) < disc_num}
             best == {c \in better : \A d \in better : cnt(c) <= cnt(d)}
         IN  IF better = {} THEN {<<c_nd, disc_num>>}
             ELSE {<<c, cnt(c)>> : c \in best}

\* the (pivot, disconnection count) of the frame pushed at graph.py:552-556
gc_rest(c_nd, c_disc_num, u, candidates, Nu) ==
    LET new_disc_num == Cardinality(candidates \ Nu)
    IN  IF 0 < new_disc_num /\ new_disc_num < c_disc_num
        THEN <<u, new_disc_num>> ELSE <<c_nd, c_disc_num>>

\* the pivot test of graph.py:529
gc_branches(c_nd, Nu) == c_nd = None \/ c_nd \notin Nu

\* a pass that pushes the frame of graph.py:552-556 with copies of the two
\* sets (set(c_candidates), set(c_not)) in place of the sets themselves
gc_iteration_copy(g, disc_num, heap, stack, f, u) ==
    LET v2u == g.V2U
        Nu == DefaultValue(v2u, u, {})
        c_candidates == heap[f.ref].candidates \ {u}
        c_not == heap[f.ref].not_set
        new_compsub == f.compsub \cup {u}
        new_candidates == gc_new_candidates(c_candidates, Nu)
        new_not == gc_new_not(c_not, Nu)
        rest == gc_rest(f.nd, f.disc, u, c_candidates, Nu)
        sets1 == [candidates |-> c_candidates, not_set |-> c_not \cup {u}]
        heap1 == [heap EXCEPT ![f.ref] = sets1]
        children == gc_child(v2u, disc_num, f.nd, f.disc, new_candidates,
                             new_not)
    IN  IF ~gc_branches(f.nd, Nu)
        THEN {[heap |-> heap, stack |-> stack]}
        ELSE IF children = {}
        THEN {[heap |-> Append(heap1, sets1),
               stack |-> Append(stack,
                                GcFrame(f.compsub, Len(heap) + 1,
                                        rest[1], rest[2]))]}
        ELSE {[heap |-> heap1 \o <<[candidates |-> new_candidates,
                                    not_set |-> new_not], sets1>>,
               stack |-> stack
                         \o <<GcFrame(new_compsub, Len(heap) + 1, c[1], c[2])>>
                         \o <<GcFrame(f.compsub, Len(heap) + 2,
                                      rest[1], rest[2])>>]
              : c \in children}

\* one pass of `for u in list(c_candidates):` (graph.py:527-556) for the
\* frame f: the heaps and stacks it may leave
gc_iteration(g, disc_num, heap, stack, f, u) ==
    LET v2u == g.V2U
        Nu == DefaultValue(v2u, u, {})
        c_candidates == heap[f.ref].candidates \ {u}
        c_not == heap[f.ref].not_set
        new_compsub == f.compsub \cup {u}
        new_candidates == gc_new_candidates(c_candidates, Nu)
        new_not == gc_new_not(c_not, Nu)
        newref == Len(heap) + 1
        rest == gc_rest(f.nd, f.disc, u, c_candidates, Nu)
        heap1 == [heap EXCEPT ![f.ref] = [candidates |-> c_candidates,
                                          not_set |-> c_not \cup {u}]]
        children == gc_child(v2u, disc_num, f.nd, f.disc, new_candidates,
                             new_not)
    IN  IF ~gc_branches(f.nd, Nu)
        THEN {[heap |-> heap, stack |-> stack]}
        ELSE IF children = {}
        THEN {[heap |-> heap1,
               stack |-> Append(stack,
                                GcFrame(f.compsub, f.ref, rest[1], rest[2]))]}
        ELSE {[heap |-> Append(heap1, [candidates |-> new_candidates,
                                       not_set |-> new_not]),
               stack |-> stack
                         \o <<GcFrame(new_compsub, newref, c[1], c[2])>>
                         \o <<GcFrame(f.compsub, f.ref, rest[1], rest[2])>>]
              : c \in children}

\* ----------------------------------------------------- calls that may raise
\* the exceptions of graph.py, and no exception
NoError == "none"

\* Bigraph._map_edge with its check: the graph when the call ends and what it
\* raised; the test for None comes before the two set.add calls
try_map_edge_late(g, edge) ==
    [g |-> map_edge(g, edge),
     err |-> IF edge[1] = None \/ edge[2] = None
             THEN "GraphError" ELSE NoError]

try_map_edge(g, edge) ==
    IF edge[1] = None \/ edge[2] = None
    THEN [g |-> g, err |-> "GraphError"]
    ELSE [g |-> map_edge(g, edge), err |-> NoError]

\* Bigraph.add_edge: _map_edge, then _store_weight_sorted unless it raised
try_add_edge(g, u, v, weight) ==
    LET mapped == try_map_edge(g, <<u, v>>)
    IN  IF mapped.err # NoError THEN mapped
        ELSE [g |-> store_weight_sorted(mapped.g, <<u, v>>, weight),
              err |-> NoError]

\* ---------------------------------------------------------------- density
\* float(n) / d for small integers: the quotient as the pair it is made of;
\* it is 1.0 exactly when n = d
Quotient(n, d) == [none |-> FALSE, num |-> n, den |-> d]

\* get_density returning None
NoDensity == [none |-> TRUE, num |-> 0, den |-> 0]

\* get_density with the sum of the two sides as the denominator
Bigraph_get_density_sum(g) ==
    LET nU == Cardinality(UOf(g))
        nV == Cardinality(VOf(g))
        nU2V == Cardinality(Keys(g.edges))
    IN  IF nU > 0 /\ nV > 0
        THEN [ret |-> Quotient(nU2V, nU + nV), err |-> NoError]
        ELSE [ret |-> NoDensity, err |-> NoError]

\* Bigraph.get_density: the value returned and what the assert raised
Bigraph_get_density(g) ==
    LET nU == Cardinality(UOf(g))
        nV == Cardinality(VOf(g))
        nU2V == Cardinality(Keys(g.edges))
        denominator == nU * nV
    IN  IF nU > 0 /\ nV > 0
        THEN IF nU2V <= denominator
             THEN [ret |-> Quotient(nU2V, denominator), err |-> NoError]
             ELSE [ret |-> NoDensity, err |-> "AssertionError"]
        ELSE [ret |-> NoDensity, err |-> NoError]

\* Graph.get_density
Graph_get_density(g) ==
    LET nV == Cardinality(VOf(g))
        nV2V == 2 * Cardinality(Keys(g.edges))
        denominator == nV * (nV - 1)
    IN  IF nV > 1
        THEN IF nV2V <= denominator
             THEN [ret |-> Quotient(nV2V, denominator), err |-> NoError]
             ELSE [ret |-> NoDensity, err |-> "AssertionError"]
        ELSE [ret |-> NoDensity, err |-> NoError]

get_density(g) ==
    IF g.cls = "Graph" THEN Graph_get_density(g) ELSE Bigraph_get_density(g)

\* ------------------------------------------------------- vertex weights
\* `for neighbor in neighbors:` of get_vnode_weight / get_unode_weight: each
\* self.edges[edge] is a defaultdict read; vside tells which of the two it is
RECURSIVE node_weight_loop(_, _, _, _, _)
node_weight_loop(g, vside, node, neighbors, node_weight) ==
    IF neighbors = {} THEN [g |-> g, ret |-> node_weight]
    ELSE LET neighbor == CHOOSE n \in neighbors : TRUE
             edge == IF vside THEN make_edge(g, neighbor, node)
                     ELSE make_edge(g, node, neighbor)
         IN  node_weight_loop([g EXCEPT !.edges = DefaultTouch(@, edge, 0)],
                              vside, node, neighbors \ {neighbor},
                              node_weight + DefaultValue(g.edges, edge, 0))

\* Bigraph.get_vnode_weight(node): self.V2U[node] is a defaultdict read (of
\* the one dict of a Graph); the graph after the call and the value returned
get_vnode_weight(g, node) ==
    LET d == DefaultTouch(g.V2U, node, {})
        g1 == IF g.cls = "Graph" THEN [g EXCEPT !.U2V = d, !.V2U = d]
              ELSE [g EXCEPT !.V2U = d]
    IN  node_weight_loop(g1, TRUE, node, d[node], 0)

\* Bigraph.get_unode_weight(node)
get_unode_weight(g, node) ==
    LET d == DefaultTouch(g.U2V, node, {})
        g1 == IF g.cls = "Graph" THEN [g EXCEPT !.U2V = d, !.V2U = d]
              ELSE [g EXCEPT !.U2V = d]
    IN  node_weight_loop(g1, FALSE, node, d[node], 0)

\* ----------------------------------------------------------- rename_nodes
\* a renamer is a function of the vertex; Skip stands for `raise SkipEdge`
Skip == -1

\* the renamers tried: a vertex is kept, sent to the first or the last vertex
\* (so that edges merge), or its edges are skipped
Renamers == [Nodes -> {1, MaxNode, Skip}]

\* Bigraph.rename_nodes, the loop over self.edges.iteritems(); SkipEdge is
\* caught per edge and the loop goes on
RECURSIVE Bigraph_rename_loop(_, _, _, _, _)
Bigraph_rename_loop(new_graph, self, todo, unode_renamer, vnode_renamer) ==
    IF todo = {} THEN [g |-> new_graph, err |-> NoError]
    ELSE LET edge == CHOOSE e \in todo : TRUE
             u == unode_renamer[edge[1]]
             v == vnode_renamer[edge[2]]
         IN  IF u = Skip \/ v = Skip
             THEN Bigraph_rename_loop(new_graph, self, todo \ {edge},
                                      unode_renamer, vnode_renamer)
             ELSE LET added == try_add_edge(new_graph, u, v, self.edges[edge])
                  IN  IF added.err # NoError THEN added
                      ELSE Bigraph_rename_loop(added.g, self, todo \ {edge},
                                               unode_renamer, vnode_renamer)

\* Graph.rename_nodes, the loop: no try/except, SkipEdge leaves the method
RECURSIVE Graph_rename_loop(_, _, _, _)
Graph_rename_loop(new_graph, self, todo, vnode_renamer) ==
    IF todo = {} THEN [g |-> new_graph, err |-> NoError]
    ELSE LET edge == CHOOSE e \in todo : TRUE
             u == vnode_renamer[edge[1]]
             v == vnode_renamer[edge[2]]
         IN  IF u = Skip \/ v = Skip
             THEN [g |-> new_graph, err |-> "SkipEdge"]
             ELSE LET added == try_add_edge(new_graph, u, v, self.edges[edge])
                  IN  IF added.err # NoError THEN added
                      ELSE Graph_rename_loop(added.g, self, todo \ {edge},
                                             vnode_renamer)

\* self.rename_nodes(...): the graph built and what the call raised
rename_nodes(self, unode_renamer, vnode_renamer) ==
    IF self.cls = "Graph"
    THEN Graph_rename_loop(NewGraph(self.cls), self, Keys(self.edges),
                           vnode_renamer)
    ELSE Bigraph_rename_loop(NewGraph(self.cls), self, Keys(self.edges),
                             unode_renamer, vnode_renamer)

\* ------------------------------------------------- construction from a base
\* the weight_type arguments tried
WeightTypes == {"int", "float"}

\* the classes of the base objects tried: the two graph classes, a class
\* outside the hierarchy and an ancestor of both (object)
BaseClasses == {"Bigraph", "Graph", "dict", "object"}

\* isinstance(base, cls) for cls one of the two graph classes
IsInstance(baseCls, cls) ==
    IF cls = "Graph" THEN baseCls = "Graph" ELSE baseCls \in {"Bigraph", "Graph"}

\* issubclass(Graph, base.__class__)
GraphIsSubclassOf(baseCls) == baseCls \in {"Graph", "Bigraph", "object"}

\* a constructor's outcome: the object's graph, its weight_type attribute,
\* the default_factory of its edges, and the exception raised
Constructed(g, weight_type, factory) ==
    [g |-> g, weight_type |-> weight_type, factory |-> factory,
     err |-> NoError]

Failed(cls, err) ==
    [g |-> NewGraph(cls), weight_type |-> "none", factory |-> "none",
     err |-> err]

\* the loop of Bigraph.__init__ over base.edges.iteritems() when
\* min_edge_weight is given
RECURSIVE Bigraph_init_filter(_, _, _, _)
Bigraph_init_filter(self, base, todo, min_edge_weight) ==
    IF todo = {} THEN self
    ELSE LET edge == CHOOSE e \in todo : TRUE
             next == IF base.edges[edge] >= min_edge_weight
                     THEN add_edge(self, edge[1], edge[2], base.edges[edge])
                     ELSE self
         IN  Bigraph_init_filter(next, base, todo \ {edge}, min_edge_weight)

\* Bigraph.__init__(base, weight_type, min_edge_weight), base not None;
\* min_edge_weight = None is the plain copy
Bigraph_init(baseCls, base, baseFactory, weight_type, min_edge_weight) ==
    IF ~IsInstance(baseCls, "Bigraph")
    THEN Failed("Bigraph", "TypeError")
    ELSE IF weight_type # baseFactory
    THEN Failed("Bigraph", "ValueError")
    ELSE IF min_edge_weight = None
    THEN Constructed([base EXCEPT !.cls = "Bigraph"], weight_type, baseFactory)
    ELSE Constructed(Bigraph_init_filter(NewGraph("Bigraph"), base,
                                         Keys(base.edges), min_edge_weight),
                     weight_type, weight_type)

\* the edge_map of Graph.__init__ from a Bigraph: each key is sorted and
\* ASSIGNED, so of two keys (a, b) and (b, a) the one iterated last stays
Graph_init_edge_maps(base) ==
    LET sorted(e) == IF e[1] <= e[2] THEN e ELSE <<e[2], e[1]>>
        keys == {sorted(e) : e \in Keys(base.edges)}
        weights == {base.edges[e] : e \in Keys(base.edges)}
    IN  {edge_map \in [keys -> weights] :
            \A k \in keys :
                \E e \in Keys(base.edges) :
                    sorted(e) = k /\ edge_map[k] = base.edges[e]}

\* Graph.__init__(base, weight_type), base not None: the possible outcomes
Graph_init(baseCls, base, baseFactory, weight_type) ==
    IF IsInstance(baseCls, "Graph")
    THEN {Constructed([base EXCEPT !.U2V = base.V2U], weight_type, baseFactory)}
    ELSE IF GraphIsSubclassOf(baseCls)
    THEN IF baseCls = "object"
         THEN {Failed("Graph", "AttributeError")}
         ELSE LET V2U == [k \in Keys(base.V2U) \cup Keys(base.U2V) |->
                            IF k \in Keys(base.U2V) THEN base.U2V[k]
                            ELSE base.V2U[k]]
              IN  {Constructed([cls |-> "Graph", U2V |-> V2U, V2U |-> V2U,
                                edges |-> edge_map], weight_type, weight_type)
                   : edge_map \in Graph_init_edge_maps(base)}
    ELSE {Failed("Graph", "TypeError")}

\* cls(base, weight_type, min_edge_weight)
construct(cls, baseCls, base, baseFactory, weight_type, min_edge_weight) ==
    IF cls = "Graph"
    THEN Graph_init(baseCls, base, baseFactory, weight_type)
    ELSE {Bigraph_init(baseCls, base, baseFactory, weight_type,
                       min_edge_weight)}

\* -------------------------------------------------------------- UnionFind
UfObjects == 1..MaxObj

\* the argument tuples of union
UfArgs == UNION {[1..n -> UfObjects] : n \in 0..MaxArgs}

\* the loop of __getitem__: the root above obj ...
RECURSIVE uf_root(_, _)
uf_root(parents, obj) ==
    IF parents[obj] = obj THEN obj ELSE uf_root(parents, parents[obj])

\* ... and the path walked to it, the root included
RECURSIVE uf_path(_, _)
uf_path(parents, obj) ==
    IF parents[obj] = obj THEN {obj}
    ELSE {obj} \cup uf_path(parents, parents[obj])

\* UnionFind.__getitem__: the structure after the call and the value returned
uf_getitem(st, obj) ==
    IF obj \notin Keys(st.parents)
    THEN [parents |-> DictSet(st.parents, obj, obj),
          weights |-> DictSet(st.weights, obj, 1),
          root |-> obj]
    ELSE LET root == uf_root(st.parents, obj)
             path == uf_path(st.parents, obj)
         IN  [parents |-> [x \in Keys(st.parents) |->
                             IF x \in path THEN root ELSE st.parents[x]],
              weights |-> st.weights,
              root |-> root]

\* found_roots with the lookup left out: the objects themselves
RECURSIVE uf_found_roots_unresolved(_, _, _)
uf_found_roots_unresolved(st, objs, i) ==
    IF i > Len(objs) THEN [parents |-> st.parents, weights |-> st.weights,
                           found_roots |-> <<>>]
    ELSE LET got == uf_getitem(st, objs[i])
             rest == uf_found_roots_unresolved(got, objs, i + 1)
         IN  [rest EXCEPT !.found_roots = <<objs[i]>> \o @]

\* found_roots = map(self.__getitem__, objs), from the i-th argument on
RECURSIVE uf_found_roots(_, _, _)
uf_found_roots(st, objs, i) ==
    IF i > Len(objs) THEN [parents |-> st.parents, weights |-> st.weights,
                           found_roots |-> <<>>]
    ELSE LET got == uf_getitem(st, objs[i])
             rest == uf_found_roots(got, objs, i + 1)
         IN  [rest EXCEPT !.found_roots = <<got.root>> \o @]

\* max(found_roots, key=weights.__getitem__): the first of the heaviest
uf_heaviest(weights, found_roots) ==
    LET best == CHOOSE i \in 1..Len(found_roots) :
                    /\ \A j \in 1..Len(found_roots) :
                          weights[found_roots[j]] <= weights[found_roots[i]]
                    /\ \A j \in 1..(i - 1) :
                          weights[found_roots[j]] < weights[found_roots[i]]
    IN  found_roots[best]

\* the loop of union over found_roots, from the i-th root on
RECURSIVE uf_link(_, _, _, _)
uf_link(st, found_roots, heaviest_root, i) ==
    IF i > Len(found_roots) THEN st
    ELSE LET root == found_roots[i]
             next == IF root # heaviest_root
                     THEN [parents |-> DictSet(st.parents, root, heaviest_root),
                           weights |-> DictSet(st.weights, heaviest_root,
                                               st.weights[heaviest_root]
                                               + st.weights[root])]
                     ELSE st
         IN  uf_link(next, found_roots, heaviest_root, i + 1)

\* UnionFind.union(*objs): max() of no roots raises ValueError
uf_union(st, objs) ==
    LET found == uf_found_roots(st, objs, 1)
        base == [parents |-> found.parents, weights |-> found.weights]
    IN  IF found.found_roots = <<>>
        THEN [parents |-> st.parents, weights |-> st.weights,
              err |-> "ValueError"]
        ELSE LET linked == uf_link(base, found.found_roots,
                                   uf_heaviest(found.weights, found.found_roots),
                                   1)
             IN  [parents |-> linked.parents, weights |-> linked.weights,
                  err |-> NoError]

\* UnionFind.sets, the loop over self.parents.keys() in the order `order`:
\* result[self[element]].append(element)
RECURSIVE uf_sets(_, _, _, _)
uf_sets(st, result, order, i) ==
    IF i > Len(order)
    THEN [parents |-> st.parents, weights |-> st.weights, result |-> result]
    ELSE LET got == uf_getitem(st, order[i])
             list == DefaultValue(result, got.root, <<>>)
         IN  uf_sets(got, DictSet(result, got.root, Append(list, order[i])),
                     order, i + 1)

\* UnionFind.num_neighbors(obj): self.weights[self[obj]] - 1
uf_num_neighbors(st, obj) ==
    LET got == uf_getitem(st, obj)
    IN  [parents |-> got.parents, weights |-> got.weights,
         ret |-> got.weights[got.root] - 1]

\* ------------------------------------------------------------- RangeQueue
\* the start and step arguments tried
RqStarts == 0..1
RqSteps == -1..2
\* the values pushed
RqValues == {"a", "b"}

\* RangeQueue.__init__(start, step): an empty heap and _prev_idx; with it,
\* the state of the retrieve() generator, everything pushed and everything
\* yielded so far, and the heap as it was when the generator last ended
NewRangeQueue(start, step) ==
    [status |-> "made", start |-> start, step |-> step,
     heap |-> {}, prev_idx |-> start - step,
     gen |-> "none", run |-> <<>>,
     pushed |-> {}, out |-> <<>>, atEnd |-> {}]

\* nsmallest(1, heap)[0] and the item heappop(heap) removes: the least
\* (idx, value) tuple; the indices in the heap are distinct
rq_smallest(heap) == CHOOSE item \in heap : \A other \in heap : item[1] <= other[1]

\* the while condition with the comparison of the index left out
rq_ready_any(q) == q.heap # {}

\* the condition of retrieve's while loop
rq_ready(q) ==
    q.heap # {} /\ rq_smallest(q.heap)[1] = q.prev_idx + q.step

\* --------------------------------------------------------------- new objects
\* weight_type=int, the default of both constructors
DefaultWeightType == "int"

NoRen == [status |-> "none"]
NoDer == [status |-> "none"]
\* UnionFind(): no parents, no weights; with it, the argument sets of the
\* calls made so far and the value of the last sets() call
NewUnionFind == [parents |-> EmptyDict, weights |-> EmptyDict, calls |-> {},
                 status |-> "new", result |-> EmptyDict, err |-> NoError]
NoRq == [status |-> "none"]

\* ------------------------------------------------------------------ state
EmptyGraph == NewGraph(kind)

NoGen == [status |-> "none", src |-> "A", before |-> EmptyGraph,
          remaining |-> {}, out |-> <<>>]

NoRes == [op |-> "none", left |-> "A", right |-> "B",
          selfBefore |-> EmptyGraph, otherBefore |-> EmptyGraph,
          obj |-> "R", g |-> EmptyGraph]

\* the graph object behind a name
Obj(n) == CASE n = "A" -> A [] n = "B" -> B [] n = "R" -> res.g

Init ==
    /\ kind \in {"Bigraph", "Graph"}
    /\ A = NewGraph(kind)
    /\ B = NewGraph(kind)
    /\ res = [op |-> "none", left |-> "A", right |-> "B",
              selfBefore |-> NewGraph(kind), otherBefore |-> NewGraph(kind),
              obj |-> "R", g |-> NewGraph(kind)]
    /\ gen = [status |-> "none", src |-> "A", before |-> NewGraph(kind),
              remaining |-> {}, out |-> <<>>]
    /\ bc = NoBc
    /\ gc = NoGc
    /\ log = <<>>
    /\ ren = NoRen
    /\ der = NoDer
    /\ wt = DefaultWeightType
    /\ uf = NewUnionFind
    /\ rq = NoRq

\* no generator is alive and no operator result is held
Idle ==
    /\ gen.status = "none"
    /\ res.op = "none"
    /\ bc.status = "none"
    /\ gc.status = "none"
    /\ ren.status = "none"
    /\ der.status = "none"

WithinBounds(g) == \A e \in Keys(g.edges) : g.edges[e] <= MaxWeight

\* the number of edge keys add_clique writes
CliqueKeys(cls, unodes, vnodes) ==
    IF cls = "Graph"
    THEN (Cardinality(unodes) * (Cardinality(unodes) + 1)) \div 2
    ELSE Cardinality(unodes) * Cardinality(vnodes)

\* ---------------------------------------------------------------- building
\* A.add_edge(u, v, weight=w) or B.add_edge(u, v, weight=w)
AddEdge ==
    \E n \in {"A", "B"}, u \in Nodes, v \in Nodes, w \in Weights :
        LET g2 == add_edge(Obj(n), u, v, w)
            a2 == IF n = "A" THEN g2 ELSE A
            b2 == IF n = "B" THEN g2 ELSE B
        IN  /\ Idle
            /\ WithinBounds(g2)
            /\ GraphLen(a2) + GraphLen(b2) <= MaxPairEdges
            /\ A' = a2
            /\ B' = b2
            /\ UNCHANGED <<ext, kind, res, gen, bc, gc>>

\* A.add_clique((unodes, vnodes), weight=w) on a Bigraph, A.add_clique(unodes,
\* weight=w) on a Graph; likewise for B
AddClique ==
    \E n \in {"A", "B"}, unodes \in SUBSET Nodes, vnodes \in SUBSET Nodes,
       w \in Weights :
        LET g2 == IF kind = "Graph"
                  THEN Graph_add_clique(Obj(n), unodes, w)
                  ELSE Bigraph_add_clique(Obj(n), unodes, vnodes, w)
            a2 == IF n = "A" THEN g2 ELSE A
            b2 == IF n = "B" THEN g2 ELSE B
        IN  /\ Idle
            /\ kind = "Graph" => vnodes = unodes
            /\ CliqueKeys(kind, unodes, vnodes) \in 1..MaxPairEdges
            /\ WithinBounds(g2)
            /\ GraphLen(a2) + GraphLen(b2) <= MaxPairEdges
            /\ A' = a2
            /\ B' = b2
            /\ UNCHANGED <<ext, kind, res, gen, bc, gc>>

\* ------------------------------------------------- component generator
\* it = g.find_connected_components(): nothing of the body runs yet
FccCall ==
    \E n \in {"A", "B"} :
        /\ Idle
        /\ gen' = [status |-> "created", src |-> n, before |-> Obj(n),
                   remaining |-> {}, out |-> <<>>]
        /\ UNCHANGED <<ext, kind, A, B, res, bc, gc>>

\* next(it): runs the body up to the next yield, or to its end
FccNext ==
    /\ gen.status \in {"created", "suspended"}
    /\ LET self == Obj(gen.src)
           remaining == IF gen.status = "created"
                        THEN fcc_remaining(self) ELSE gen.remaining
       IN  IF remaining = {}
           THEN /\ gen' = [gen EXCEPT !.status = "done", !.remaining = {}]
                /\ UNCHANGED <<A, B>>
           ELSE \E start \in remaining :
                  \E fin \in fcc_component(self, remaining, start) :
                    /\ gen' = [gen EXCEPT !.status = "suspended",
                                          !.remaining = fin.remaining,
                                          !.out = Append(@, fin.comp)]
                    /\ A' = IF gen.src = "A" THEN fin.g ELSE A
                    /\ B' = IF gen.src = "B" THEN fin.g ELSE B
    /\ UNCHANGED <<ext, kind, res, bc, gc>>

\* the generator is dropped, consumed or not
FccDrop ==
    /\ gen.status # "none"
    /\ gen' = NoGen
    /\ UNCHANGED <<ext, kind, A, B, res, bc, gc>>

\* ------------------------------------------------------------ operators
\* r = left & right, left | right or left - right
Algebra ==
    \E op \in {"and", "or", "sub"}, l \in {"A", "B"} :
        LET r == IF l = "A" THEN "B" ELSE "A"
            obj == ResultObject(l)
            g0 == IF obj = "R" THEN NewGraph(Obj(l).cls) ELSE Obj(obj)
            out == Operate(op, g0, Obj(l), Obj(r))
            self2 == [Obj(l) EXCEPT !.edges = out.dict1]
            other2 == [Obj(r) EXCEPT !.edges = out.dict2]
            a2 == IF l = "A" THEN self2 ELSE other2
            b2 == IF l = "B" THEN self2 ELSE other2
        IN  /\ Idle
            /\ res' = [op |-> op, left |-> l, right |-> r,
                       selfBefore |-> Obj(l), otherBefore |-> Obj(r),
                       obj |-> obj,
                       g |-> IF obj = "R" THEN out.g ELSE EmptyGraph]
            /\ A' = IF obj = "A" THEN out.g ELSE a2
            /\ B' = IF obj = "B" THEN out.g ELSE b2
            /\ UNCHANGED <<ext, kind, gen, bc, gc>>

\* r.add_edge(u, v) on the operator's result
AddEdgeResult ==
    \E u \in Nodes, v \in Nodes :
        LET g2 == add_edge(Obj(res.obj), u, v, DefaultWeight)
        IN  /\ res.op \notin {"none", "grown"}
            /\ WithinBounds(g2)
            /\ res' = [res EXCEPT !.op = "grown",
                                  !.g = IF res.obj = "R" THEN g2 ELSE @]
            /\ A' = IF res.obj = "A" THEN g2 ELSE A
            /\ B' = IF res.obj = "B" THEN g2 ELSE B
            /\ UNCHANGED <<ext, kind, gen, bc, gc>>

\* the result is dropped
ResultDrop ==
    /\ res.op # "none"
    /\ res' = NoRes
    /\ UNCHANGED <<ext, kind, A, B, gen, bc, gc>>

\* ------------------------------------------- growing the graph A alone
\* A.add_edge(u, v, weight=w)
InsertEdge ==
    \E u \in Nodes, v \in Nodes, w \in Weights :
        LET g2 == add_edge(A, u, v, w)
        IN  /\ Idle
            /\ WithinBounds(g2)
            /\ GraphLen(g2) <= MaxEdges
            /\ A' = g2
            /\ UNCHANGED <<ext, kind, B, res, gen, bc, gc>>

\* A.add_clique(..., weight=w)
InsertClique ==
    \E unodes \in SUBSET Nodes, vnodes \in SUBSET Nodes, w \in Weights :
        LET g2 == IF kind = "Graph"
                  THEN Graph_add_clique(A, unodes, w)
                  ELSE Bigraph_add_clique(A, unodes, vnodes, w)
        IN  /\ Idle
            /\ kind = "Graph" => vnodes = unodes
            /\ CliqueKeys(kind, unodes, vnodes) \in 1..MaxEdges
            /\ WithinBounds(g2)
            /\ GraphLen(g2) <= MaxEdges
            /\ A' = g2
            /\ UNCHANGED <<ext, kind, B, res, gen, bc, gc>>

\* it = A.find_connected_components()
FccCallA ==
    /\ Idle
    /\ gen' = [status |-> "created", src |-> "A", before |-> A,
               remaining |-> {}, out |-> <<>>]
    /\ UNCHANGED <<ext, kind, A, B, res, bc, gc>>

\* ------------------------------------------ graphs for the clique searches
\* A.add_edge(u, v) with the default weight, for an edge A does not have yet
\* (find_cliques reads the adjacency maps only, never the weights)
NewEdge ==
    \E u \in Nodes, v \in Nodes :
        /\ Idle
        /\ make_edge(A, u, v) \notin Keys(A.edges)
        /\ A' = add_edge(A, u, v, DefaultWeight)
        /\ UNCHANGED <<ext, kind, B, res, gen, bc, gc>>

\* A.add_clique(...) with the default weight, for edges A does not have yet
NewClique ==
    \E unodes \in SUBSET Nodes, vnodes \in SUBSET Nodes :
        LET pairs == IF kind = "Graph" THEN unodes \X unodes
                     ELSE unodes \X vnodes
        IN  /\ Idle
            /\ kind = "Graph" => vnodes = unodes
            /\ pairs # {}
            /\ \A p \in pairs : make_edge(A, p[1], p[2]) \notin Keys(A.edges)
            /\ A' = IF kind = "Graph"
                    THEN Graph_add_clique(A, unodes, DefaultWeight)
                    ELSE Bigraph_add_clique(A, unodes, vnodes, DefaultWeight)
            /\ UNCHANGED <<ext, kind, B, res, gen, bc, gc>>

\* ------------------------------------------------- biclique generator
\* it = A.find_cliques() with L = P = None, up to the first `while stack:`;
\* list(self.V) lists the keys of V2U in an order of the dict's choosing
BcCall ==
    \E P \in Orders(VOf(A)) :
        /\ Idle
        /\ kind = "Bigraph"
        /\ bc' = [status |-> "running", pc |-> "outer",
                  stack |-> <<BcFrame(UOf(A), {}, P, {})>>,
                  cur |-> BcFrame({}, {}, <<>>, {}), out |-> <<>>]
        /\ UNCHANGED <<ext, kind, A, B, res, gen, gc>>

\* `while stack:` and stack.pop() (graph.py:357-358)
BcPop ==
    /\ bc.status = "running"
    /\ bc.pc = "outer"
    /\ IF bc.stack = <<>>
       THEN bc' = [bc EXCEPT !.status = "done"]
       ELSE LET f == bc.stack[Len(bc.stack)]
            IN  bc' = [bc EXCEPT !.stack = SubSeq(@, 1, Len(@) - 1),
                                 !.cur = f,
                                 !.pc = IF f.P = <<>> THEN "outer" ELSE "inner"]
    /\ UNCHANGED <<ext, kind, A, B, res, gen, gc>>

\* one pass of `while P:` (graph.py:359-394), its yield included
BcIter ==
    /\ bc.status = "running"
    /\ bc.pc = "inner"
    /\ LET it == bc_iteration(A, bc.cur)
       IN  bc' = [bc EXCEPT !.cur = it.frame,
                            !.out = @ \o it.yields,
                            !.stack = @ \o it.pushes,
                            !.pc = IF it.frame.P = <<>> THEN "outer"
                                   ELSE "inner"]
    /\ UNCHANGED <<ext, kind, A, B, res, gen, gc>>

\* the generator is dropped
BcDrop ==
    /\ bc.status = "done"
    /\ bc' = NoBc
    /\ UNCHANGED <<ext, kind, A, B, res, gen, gc>>

\* --------------------------------------------------- clique generator
\* it = A.find_cliques(min_clique_size=k), up to the first `while stack:`
GcCall ==
    \E k \in 0..DefaultMinCliqueSize :
        /\ Idle
        /\ kind = "Graph"
        /\ gc' = [status |-> "running", pc |-> "outer", k |-> k,
                  disc_num |-> Cardinality(VOf(A)),
                  stack |-> <<GcFrame({}, 1, None, Cardinality(VOf(A)))>>,
                  heap |-> <<[candidates |-> VOf(A), not_set |-> {}]>>,
                  cur |-> GcFrame({}, 0, None, 0), todo |-> <<>>,
                  out |-> <<>>]
        /\ UNCHANGED <<ext, kind, A, B, res, gen, bc>>

\* `while stack:`, stack.pop(), the yield, list(c_candidates)
\* (graph.py:522-527)
GcPop ==
    /\ gc.status = "running"
    /\ gc.pc = "outer"
    /\ IF gc.stack = <<>>
       THEN gc' = [gc EXCEPT !.status = "done"]
       ELSE LET f == gc.stack[Len(gc.stack)]
                rest == SubSeq(gc.stack, 1, Len(gc.stack) - 1)
                c_candidates == gc.heap[f.ref].candidates
                c_not == gc.heap[f.ref].not_set
            IN  IF gc_accept(f.compsub, c_candidates, c_not, gc.k)
                THEN gc' = [gc EXCEPT !.stack = rest, !.cur = f,
                                      !.out = Append(@,
                                          [clique |-> f.compsub,
                                           candidates |-> c_candidates,
                                           not_set |-> c_not])]
                ELSE \E order \in Orders(c_candidates) :
                       gc' = [gc EXCEPT !.stack = rest, !.cur = f,
                                        !.todo = order,
                                        !.pc = IF order = <<>> THEN "outer"
                                               ELSE "inner"]
    /\ UNCHANGED <<ext, kind, A, B, res, gen, bc>>

\* one pass of `for u in list(c_candidates):`
GcIter ==
    /\ gc.status = "running"
    /\ gc.pc = "inner"
    /\ \E nxt \in gc_iteration(A, gc.disc_num, gc.heap, gc.stack, gc.cur,
                               Head(gc.todo)) :
          gc' = [gc EXCEPT !.heap = nxt.heap, !.stack = nxt.stack,
                           !.todo = Tail(@),
                           !.pc = IF Tail(gc.todo) = <<>> THEN "outer"
                                  ELSE "inner"]
    /\ UNCHANGED <<ext, kind, A, B, res, gen, bc>>

\* the generator is dropped
GcDrop ==
    /\ gc.status = "done"
    /\ gc' = NoGc
    /\ UNCHANGED <<ext, kind, A, B, res, gen, bc>>

\* ------------------------------------------------ calls on A, with history
\* A.add_edge(u, v, weight=w), any endpoints and any weight; a call that
\* raises leaves A as the code left it when the exception was raised
CallAddEdge ==
    \E u \in Endpoints, v \in Endpoints, w \in IntWeights :
        LET out == try_add_edge(A, u, v, w)
        IN  /\ Idle
            /\ Len(log) < MaxCalls
            /\ A' = out.g
            /\ log' = Append(log, [op |-> "add_edge", u |-> u, v |-> v,
                                    w |-> w, err |-> out.err])
            /\ UNCHANGED <<kind, B, res, gen, bc, gc, ren, der, wt, uf, rq>>

\* A.add_clique((unodes, vnodes), weight=w) on a Bigraph, A.add_clique(unodes,
\* weight=w) on a Graph; the lists are duplicate-free and may be empty
CallAddClique ==
    \E unodes \in SUBSET Nodes, vnodes \in SUBSET Nodes, w \in Weights :
        /\ Idle
        /\ Len(log) < MaxCalls - 1
        /\ kind = "Graph" => vnodes = unodes
        /\ A' = IF kind = "Graph"
                THEN Graph_add_clique(A, unodes, w)
                ELSE Bigraph_add_clique(A, unodes, vnodes, w)
        /\ log' = Append(log, [op |-> "add_clique", u |-> unodes,
                                v |-> vnodes, w |-> w, err |-> NoError])
        /\ UNCHANGED <<kind, B, res, gen, bc, gc, ren, der, wt, uf, rq>>

\* A.get_density()
CallGetDensity ==
    LET out == get_density(A)
    IN  /\ Idle
        /\ Len(log) < MaxCalls
        /\ log' = Append(log, [op |-> "get_density", ret |-> out.ret,
                                err |-> out.err])
        /\ UNCHANGED <<kind, A, B, res, gen, bc, gc, ren, der, wt, uf, rq>>

\* A.get_unode_weight(node) or A.get_vnode_weight(node), for any node
CallNodeWeight ==
    \E vside \in BOOLEAN, node \in Nodes :
        LET out == IF vside THEN get_vnode_weight(A, node)
                   ELSE get_unode_weight(A, node)
        IN  /\ Idle
            /\ Len(log) < MaxCalls
            /\ A' = out.g
            /\ log' = Append(log, [op |-> IF vside THEN "get_vnode_weight"
                                          ELSE "get_unode_weight",
                                    node |-> node, ret |-> out.ret,
                                    err |-> NoError])
            /\ UNCHANGED <<kind, B, res, gen, bc, gc, ren, der, wt, uf, rq>>

\* ------------------------------------------------------------ renaming
\* r = A.rename_nodes(unode_renamer, vnode_renamer) on a Bigraph,
\* r = A.rename_nodes(vnode_renamer) on a Graph; A has at most MaxPairEdges
\* keys.  When the call raises, nothing is returned: ren.g is what the
\* abandoned local new_graph held
Rename ==
    \E unode_renamer \in Renamers, vnode_renamer \in Renamers :
        LET out == rename_nodes(A, unode_renamer, vnode_renamer)
        IN  /\ Idle
            /\ kind = "Graph" => unode_renamer = vnode_renamer
            /\ GraphLen(A) \in 1..MaxPairEdges
            /\ ren' = [status |-> IF out.err = NoError THEN "returned"
                                  ELSE "raised",
                       un |-> unode_renamer, vn |-> vnode_renamer,
                       before |-> A, g |-> out.g, err |-> out.err]
            /\ UNCHANGED <<kind, A, B, res, gen, bc, gc, log, der, wt, uf, rq>>

\* the renamed graph is dropped
RenameDrop ==
    /\ ren.status # "none"
    /\ ren' = NoRen
    /\ UNCHANGED <<kind, A, B, res, gen, bc, gc, log, der, wt, uf, rq>>

\* ------------------------------------------------------------ derivation
\* d = cls(base, weight_type=..., min_edge_weight=...), where base is A or an
\* object that is no graph; Graph's constructor has no min_edge_weight.
\* When the constructor raises, no object is made
Derive ==
    \E cls \in {"Bigraph", "Graph"}, baseCls \in BaseClasses,
       weight_type \in WeightTypes, min_edge_weight \in {None} \cup Weights :
        \E out \in construct(cls, baseCls, A, wt, weight_type,
                              min_edge_weight) :
            /\ Idle
            /\ GraphLen(A) <= MaxPairEdges
            /\ baseCls \in {"Bigraph", "Graph"} => baseCls = kind
            /\ cls = "Graph" => min_edge_weight = None
            /\ der' = [status |-> IF out.err = NoError THEN "made"
                                  ELSE "raised",
                       cls |-> cls, baseCls |-> baseCls,
                       baseFactory |-> IF baseCls = kind THEN wt ELSE "none",
                       weight_type |-> weight_type,
                       min_edge_weight |-> min_edge_weight,
                       g |-> out.g, factory |-> out.factory, err |-> out.err]
            /\ UNCHANGED <<kind, A, B, res, gen, bc, gc, log, ren, wt, uf, rq>>

\* the derived graph is dropped
DeriveDrop ==
    /\ der.status # "none"
    /\ der' = NoDer
    /\ UNCHANGED <<kind, A, B, res, gen, bc, gc, log, ren, wt, uf, rq>>

\* ------------------------------------------------------------ UnionFind
\* uf.union(*objs)
UfUnion ==
    \E objs \in UfArgs :
        LET out == uf_union(uf, objs)
        IN  /\ uf' = [parents |-> out.parents, weights |-> out.weights,
                      calls |-> IF out.err = NoError
                                THEN uf.calls \cup {{objs[i] : i \in 1..Len(objs)}}
                                ELSE uf.calls,
                      status |-> "union", result |-> EmptyDict,
                      err |-> out.err]
            /\ UNCHANGED <<kind, A, B, res, gen, bc, gc, log, ren, der, wt, rq>>

\* uf[obj]
UfGetitem ==
    \E obj \in UfObjects :
        LET out == uf_getitem(uf, obj)
        IN  /\ uf' = [parents |-> out.parents, weights |-> out.weights,
                      calls |-> uf.calls \cup {{obj}},
                      status |-> "getitem", result |-> EmptyDict,
                      err |-> NoError]
            /\ UNCHANGED <<kind, A, B, res, gen, bc, gc, log, ren, der, wt, rq>>

\* uf.num_neighbors(obj); `result` maps obj to the number returned
UfNumNeighbors ==
    \E obj \in UfObjects :
        LET out == uf_num_neighbors(uf, obj)
        IN  /\ uf' = [parents |-> out.parents, weights |-> out.weights,
                      calls |-> uf.calls \cup {{obj}},
                      status |-> "num_neighbors",
                      result |-> DictSet(EmptyDict, obj, out.ret),
                      err |-> NoError]
            /\ UNCHANGED <<kind, A, B, res, gen, bc, gc, log, ren, der, wt, rq>>

\* uf.sets(): the keys of parents are visited in an order of the dict's
\* choosing; the lists returned are the values of `result`
UfSets ==
    \E order \in Orders(Keys(uf.parents)) :
        LET out == uf_sets(uf, EmptyDict, order, 1)
        IN  /\ uf' = [parents |-> out.parents, weights |-> out.weights,
                      calls |-> uf.calls,
                      status |-> "sets", result |-> out.result,
                      err |-> NoError]
            /\ UNCHANGED <<kind, A, B, res, gen, bc, gc, log, ren, der, wt, rq>>

\* ------------------------------------------------------------ RangeQueue
\* queue.push(idx, value), idx an index of the range not pushed before
RqPush ==
    \E k \in 0..(MaxIdx - 1), value \in RqValues :
        LET idx == rq.start + k * rq.step
        IN  /\ \A item \in rq.pushed : item[1] # idx
            /\ rq' = [rq EXCEPT !.heap = @ \cup {<<idx, value>>},
                                !.pushed = @ \cup {<<idx, value>>}]
            /\ UNCHANGED <<kind, A, B, res, gen, bc, gc, log, ren, der, wt, uf>>

\* it = queue.retrieve(): nothing of the body runs yet
RqRetrieve ==
    /\ rq.gen = "none"
    /\ rq' = [rq EXCEPT !.gen = "created", !.run = <<>>]
    /\ UNCHANGED <<kind, A, B, res, gen, bc, gc, log, ren, der, wt, uf>>

\* next(it): one test of the while condition, then heappop and yield, or the
\* end of the generator
RqNext ==
    /\ rq.gen \in {"created", "suspended"}
    /\ IF rq_ready(rq)
       THEN LET item == rq_smallest(rq.heap)
            IN  rq' = [rq EXCEPT !.heap = @ \ {item},
                                 !.prev_idx = item[1],
                                 !.gen = "suspended",
                                 !.run = Append(@, item),
                                 !.out = Append(@, item)]
       ELSE rq' = [rq EXCEPT !.gen = "done", !.atEnd = rq.heap]
    /\ UNCHANGED <<kind, A, B, res, gen, bc, gc, log, ren, der, wt, uf>>

\* the generator is dropped, consumed or not
RqDrop ==
    /\ rq.gen # "none"
    /\ rq' = [rq EXCEPT !.gen = "none", !.run = <<>>, !.atEnd = {}]
    /\ UNCHANGED <<kind, A, B, res, gen, bc, gc, log, ren, der, wt, uf>>

\* ------------------------------------------------------- specifications
\* two operands, the operators, and the component generator on either
Next ==
    \/ AddEdge
    \/ AddClique
    \/ FccCall
    \/ FccNext
    \/ FccDrop
    \/ Algebra
    \/ AddEdgeResult
    \/ ResultDrop

Spec == Init /\ [][Next]_vars

\* one graph and its component generator
NextCc ==
    \/ InsertEdge
    \/ InsertClique
    \/ FccCallA
    \/ FccNext
    \/ FccDrop

SpecCc == Init /\ [][NextCc]_vars

\* one Bigraph and its biclique generator
InitBc == Init /\ kind = "Bigraph"

NextBc ==
    \/ NewEdge
    \/ NewClique
    \/ BcCall
    \/ BcPop
    \/ BcIter
    \/ BcDrop

SpecBc == InitBc /\ [][NextBc]_vars

\* the same with a caller that drains the generator (list(g.find_cliques())):
\* every step of the two loops that can be taken is taken
SpecBcFair == SpecBc /\ WF_vars(BcPop) /\ WF_vars(BcIter)

\* one Graph and its clique generator
InitGc == Init /\ kind = "Graph"

NextGc ==
    \/ NewEdge
    \/ NewClique
    \/ GcCall
    \/ GcPop
    \/ GcIter
    \/ GcDrop

SpecGc == InitGc /\ [][NextGc]_vars

\* one graph and the add_edge calls made on it
NextAdd ==
    \/ CallAddEdge

SpecAdd == Init /\ [][NextAdd]_vars

\* one graph, the add_clique calls made on it and its density
NextClique ==
    \/ CallAddClique
    \/ CallGetDensity

SpecClique == Init /\ [][NextClique]_vars

\* one graph, the add_edge calls made on it and its vertices' weights
NextWeight ==
    \/ CallAddEdge
    \/ CallNodeWeight

SpecWeight == Init /\ [][NextWeight]_vars

\* one graph, grown by add_edge and add_clique, and its renamings
NextRename ==
    \/ InsertEdge
    \/ InsertClique
    \/ Rename
    \/ RenameDrop

SpecRename == Init /\ [][NextRename]_vars

\* one graph of either weight type, and the graphs derived from it
InitGraph ==
    /\ kind \in {"Bigraph", "Graph"}
    /\ A = NewGraph(kind)
    /\ B = NewGraph(kind)
    /\ res = [op |-> "none", left |-> "A", right |-> "B",
              selfBefore |-> NewGraph(kind), otherBefore |-> NewGraph(kind),
              obj |-> "R", g |-> NewGraph(kind)]
    /\ gen = [status |-> "none", src |-> "A", before |-> NewGraph(kind),
              remaining |-> {}, out |-> <<>>]
    /\ bc = NoBc
    /\ gc = NoGc

InitDerive ==
    /\ InitGraph
    /\ log = <<>>
    /\ ren = NoRen
    /\ der = NoDer
    /\ wt \in WeightTypes
    /\ uf = NewUnionFind
    /\ rq = NoRq

NextDerive ==
    \/ InsertEdge
    \/ InsertClique
    \/ Derive
    \/ DeriveDrop

SpecDerive == InitDerive /\ [][NextDerive]_vars

\* one UnionFind object
InitUf == Init /\ kind = "Bigraph"

NextUf ==
    \/ UfUnion
    \/ UfGetitem
    \/ UfSets
    \/ UfNumNeighbors

SpecUf == InitUf /\ [][NextUf]_vars

\* one RangeQueue(start, step) and its retrieve() generator
InitRq ==
    /\ InitGraph
    /\ kind = "Bigraph"
    /\ log = <<>>
    /\ ren = NoRen
    /\ der = NoDer
    /\ wt = DefaultWeightType
    /\ uf = NewUnionFind
    /\ rq \in {NewRangeQueue(start, step) :
                  start \in RqStarts, step \in RqSteps}

NextRq ==
    \/ RqPush
    \/ RqRetrieve
    \/ RqNext
    \/ RqDrop

SpecRq == InitRq /\ [][NextRq]_vars

\* ------------------------------------------------ what the claims speak of
\* the vertices of a graph, tagged with their side (0: U, 1: V); a Graph has
\* the one side V
Vertices(g) ==
    IF g.cls = "Graph" THEN {<<1, v>> : v \in VOf(g)}
    ELSE {<<0, u>> : u \in UOf(g)} \cup {<<1, v>> : v \in VOf(g)}

\* an edge joins the tagged vertices x and y
Adjacent(g, x, y) ==
    IF g.cls = "Graph"
    THEN x[2] \in DOMAIN g.V2U /\ y[2] \in g.V2U[x[2]]
    ELSE \/ x[1] = 0 /\ y[1] = 1 /\ x[2] \in DOMAIN g.U2V /\ y[2] \in g.U2V[x[2]]
         \/ x[1] = 1 /\ y[1] = 0 /\ x[2] \in DOMAIN g.V2U /\ y[2] \in g.V2U[x[2]]

\* the vertices a path of edges joins to a member of `seen`
RECURSIVE ReachFrom(_, _)
ReachFrom(g, seen) ==
    LET more == {y \in Vertices(g) : \E x \in seen : Adjacent(g, x, y)}
    IN  IF more \subseteq seen THEN seen ELSE ReachFrom(g, seen \cup more)

\* the connectivity classes of a graph
Classes(g) == {ReachFrom(g, {x}) : x \in Vertices(g)}

\* C5: the components yielded by find_connected_components() have pairwise
\* disjoint vertex sets, each the vertices a path joins to one another (a
\* connectivity class of the source graph), and once the generator is
\* exhausted their union is the whole vertex set, one component per class.
C5_ComponentsPartitionVertices ==
    gen.status # "none" =>
        /\ \A i \in 1..Len(gen.out) : \A j \in 1..Len(gen.out) :
              i # j => Vertices(gen.out[i]) \cap Vertices(gen.out[j]) = {}
        /\ \A i \in 1..Len(gen.out) :
              Vertices(gen.out[i]) \in Classes(gen.before)
        /\ gen.status = "done" =>
              /\ UNION {Vertices(gen.out[i]) : i \in 1..Len(gen.out)}
                   = Vertices(gen.before)
              /\ Len(gen.out) = Cardinality(Classes(gen.before))

\* an exhausted generator that yielded several components, one of them with
\* more than two vertices
C5_Witness ==
    /\ gen.status = "done"
    /\ Len(gen.out) >= 2
    /\ \E i \in 1..Len(gen.out) : Cardinality(Vertices(gen.out[i])) >= 3

\* C6: while a find_connected_components() generator exists (part-way or
\* exhausted), the graph it was called on is as it was before the call: same
\* adjacency maps, same weight table, same len(graph), equal to the copy.
C6_SourceUnchanged ==
    gen.status # "none" =>
        /\ Obj(gen.src).U2V = gen.before.U2V
        /\ Obj(gen.src).V2U = gen.before.V2U
        /\ Obj(gen.src).edges = gen.before.edges
        /\ GraphLen(Obj(gen.src)) = GraphLen(gen.before)
        /\ Eq(Obj(gen.src), gen.before)

\* the weight of an edge key, a missing key counting as the weight type's zero
WeightOrZero(g, e) == IF e \in Keys(g.edges) THEN g.edges[e] ELSE 0

\* the adjacency maps join u and v
Joined(g, u, v) == u \in DOMAIN g.U2V /\ v \in g.U2V[u]

\* the result of the operator on the swapped operands
Swapped(op) == Operate(op, NewGraph(res.selfBefore.cls),
                       res.otherBefore, res.selfBefore).g

\* C7: A & B has an edge exactly when both A and B have it, its weight there
\* is the minimum of its weights in A and in B, and A & B == B & A.
C7_IntersectionMin ==
    res.op = "and" =>
        /\ Keys(res.g.edges)
             = Keys(res.selfBefore.edges) \cap Keys(res.otherBefore.edges)
        /\ \A e \in Keys(res.g.edges) :
              /\ res.g.edges[e] <= res.selfBefore.edges[e]
              /\ res.g.edges[e] <= res.otherBefore.edges[e]
              /\ res.g.edges[e] \in {res.selfBefore.edges[e],
                                     res.otherBefore.edges[e]}
        /\ Eq(res.g, Swapped("and"))

\* an intersection over a shared edge whose two weights differ
C7_Witness ==
    /\ res.op = "and"
    /\ \E e \in Keys(res.g.edges) :
          res.selfBefore.edges[e] > res.otherBefore.edges[e]

\* C8: A | B has an edge exactly when A or B has it, its weight there is the
\* sum of its weights in A and in B (a missing edge counting as zero), and
\* A | B == B | A.
C8_UnionSum ==
    res.op = "or" =>
        /\ Keys(res.g.edges)
             = Keys(res.selfBefore.edges) \cup Keys(res.otherBefore.edges)
        /\ \A e \in Keys(res.g.edges) :
              res.g.edges[e] = WeightOrZero(res.selfBefore, e)
                               + WeightOrZero(res.otherBefore, e)
        /\ Eq(res.g, Swapped("or"))

\* a union over an edge of both operands and an edge of the right one alone
C8_Witness ==
    /\ res.op = "or"
    /\ Keys(res.selfBefore.edges) \cap Keys(res.otherBefore.edges) # {}
    /\ Keys(res.otherBefore.edges) \ Keys(res.selfBefore.edges) # {}

\* C9: u and v are joined in A - B exactly when they are joined in A and not
\* joined in B, every edge of A - B keeps A's weight, and (A - B) & B has no
\* edges.
C9_DifferenceByAdjacency ==
    res.op = "sub" =>
        /\ \A u \in Nodes : \A v \in Nodes :
              Joined(res.g, u, v) <=> /\ Joined(res.selfBefore, u, v)
                                      /\ ~Joined(res.otherBefore, u, v)
        /\ \A e \in Keys(res.g.edges) :
              res.g.edges[e] = WeightOrZero(res.selfBefore, e)
        /\ Keys(Operate("and", NewGraph(res.g.cls), res.g,
                        res.otherBefore).g.edges) = {}

\* C10: an operator's result is an object of its own, and both operands are
\* as they were before the operation, also after an edge was added to the
\* result.
C10_OperandsUntouched ==
    res.op # "none" =>
        /\ res.obj \notin {res.left, res.right}
        /\ Obj(res.left) = res.selfBefore
        /\ Obj(res.right) = res.otherBefore

\* an edge was added to the result of an operator on two non-empty operands
C10_Witness ==
    /\ res.op = "grown"
    /\ Keys(res.selfBefore.edges) # {}
    /\ Keys(res.otherBefore.edges) # {}
    /\ Keys(res.g.edges) # {}

\* (L, R) is a biclique of g with both sides non-empty
IsBiclique(g, L, R) ==
    /\ L # {} /\ R # {}
    /\ L \subseteq UOf(g) /\ R \subseteq VOf(g)
    /\ \A u \in L : \A v \in R : v \in g.U2V[u]

\* ... that no vertex of either side extends
IsMaximalBiclique(g, L, R) ==
    /\ IsBiclique(g, L, R)
    /\ \A u \in UOf(g) \ L : \E v \in R : v \notin g.U2V[u]
    /\ \A v \in VOf(g) \ R : \E u \in L : u \notin g.V2U[v]

MaximalBicliques(g) ==
    {p \in (SUBSET UOf(g)) \X (SUBSET VOf(g)) :
        IsMaximalBiclique(g, p[1], p[2])}

\* C1: every pair (L, R) yielded by Bigraph.find_cliques() is a maximal
\* biclique: both sides non-empty, every u in L adjacent to every v in R, no
\* U-vertex outside L adjacent to all of R, no V-vertex outside R adjacent
\* to all of L.
C1_YieldsMaximalBicliques ==
    \A i \in 1..Len(bc.out) :
        IsMaximalBiclique(A, bc.out[i][1], bc.out[i][2])

\* a pair was yielded whose R side absorbed a second vertex
C1_Witness ==
    /\ Len(bc.out) >= 2
    /\ \E i \in 1..Len(bc.out) :
          Cardinality(bc.out[i][2]) >= 2 /\ Cardinality(bc.out[i][1]) >= 2

\* C2: once Bigraph.find_cliques() is exhausted, the set of yielded pairs is
\* the set of all maximal bicliques of the graph.
C2_YieldsAllMaximalBicliques ==
    bc.status = "done" =>
        {bc.out[i] : i \in 1..Len(bc.out)} = MaximalBicliques(A)

\* an exhausted search of a graph with several overlapping maximal bicliques
C2_Witness ==
    /\ bc.status = "done"
    /\ Cardinality(MaximalBicliques(A)) >= 4

\* every two distinct members of C are adjacent
IsClique(g, C) ==
    /\ C \subseteq VOf(g)
    /\ \A a \in C : \A b \in C : a # b => b \in g.V2U[a]

\* ... and no vertex outside C is adjacent to all its members
IsMaximalClique(g, C) ==
    /\ IsClique(g, C)
    /\ \A x \in VOf(g) \ C : \E a \in C : x \notin g.V2U[a]

MaximalCliques(g, k) ==
    {C \in SUBSET VOf(g) : IsMaximalClique(g, C) /\ Cardinality(C) >= k}

\* C3: every set yielded by Graph.find_cliques(min_clique_size=k) came from a
\* frame whose candidates and not_set are both empty, has at least k
\* vertices, is a clique and is maximal.
C3_YieldsMaximalCliques ==
    \A i \in 1..Len(gc.out) :
        /\ gc.out[i].candidates = {}
        /\ gc.out[i].not_set = {}
        /\ Cardinality(gc.out[i].clique) >= gc.k
        /\ IsMaximalClique(A, gc.out[i].clique)

\* a clique of two or more vertices was yielded from a graph that has a
\* vertex outside it
C3_Witness ==
    /\ gc.status = "running"
    /\ \E i \in 1..Len(gc.out) : Cardinality(gc.out[i].clique) >= 2
    /\ \E v \in VOf(A) : \E i \in 1..Len(gc.out) : v \notin gc.out[i].clique

\* C4: once Graph.find_cliques(min_clique_size=k) is exhausted it has yielded
\* each maximal clique of size >= k exactly once, and nothing else.
C4_YieldsEachMaximalCliqueOnce ==
    gc.status = "done" =>
        /\ {gc.out[i].clique : i \in 1..Len(gc.out)} = MaximalCliques(A, gc.k)
        /\ Len(gc.out) = Cardinality(MaximalCliques(A, gc.k))

\* an exhausted search that yielded a clique and suppressed a smaller one
C4_Witness ==
    /\ gc.status = "done"
    /\ Len(gc.out) >= 1
    /\ Cardinality(MaximalCliques(A, 0)) > Len(gc.out)

\* ------------------------------------------------------------ add_edge
\* the add_edge calls of the history that returned
Returned == {i \in 1..Len(log) : log[i].op = "add_edge" /\ log[i].err = NoError}

\* the calls made for the edge e: with its endpoints in this order in a
\* Bigraph, in either order in a Graph
CallsFor(e) ==
    {i \in Returned :
        IF kind = "Graph" THEN {log[i].u, log[i].v} = {e[1], e[2]}
        ELSE <<log[i].u, log[i].v>> = e}

RECURSIVE SumOfWeights(_)
SumOfWeights(calls) ==
    IF calls = {} THEN 0
    ELSE LET i == CHOOSE j \in calls : TRUE
         IN  log[i].w + SumOfWeights(calls \ {i})

\* C11: after any sequence of add_edge calls on an empty graph, an edge is
\* stored exactly when a call was made for it, its weight is the sum of the
\* weight arguments of those calls, and in a Graph the calls (a, b) and (b, a)
\* meet in one single key
C11_AddEdgeAccumulates ==
    (\A i \in 1..Len(log) : log[i].op = "add_edge") =>
        /\ \A e \in Nodes \X Nodes :
              /\ CallsFor(e) # {} =>
                    \E k \in Keys(A.edges) :
                        /\ (IF kind = "Graph" THEN {k[1], k[2]} = {e[1], e[2]}
                            ELSE k = e)
                        /\ A.edges[k] = SumOfWeights(CallsFor(e))
              /\ e \in Keys(A.edges) => CallsFor(e) # {}
        /\ kind = "Graph" =>
              \A k1 \in Keys(A.edges), k2 \in Keys(A.edges) :
                  {k1[1], k1[2]} = {k2[1], k2[2]} => k1 = k2

\* an edge of a Graph inserted in both orders, and an edge inserted twice
C11_Witness ==
    /\ kind = "Graph"
    /\ Len(log) = 3
    /\ \E i \in Returned, j \in Returned :
          /\ log[i].u # log[i].v
          /\ log[j].u = log[i].v /\ log[j].v = log[i].u
          /\ log[i].w = 1 /\ log[j].w = 1
    /\ \E k \in Keys(A.edges) : A.edges[k] = 3

\* C12: add_edge with u or v None raises GraphError and leaves the adjacency
\* maps and the weight table as they were
C12_NoneEndpointRejected ==
    [][(Len(log') = Len(log) + 1 /\ log'[Len(log')].op = "add_edge"
        /\ (log'[Len(log')].u = None \/ log'[Len(log')].v = None))
       => (log'[Len(log')].err = "GraphError" /\ A' = A)]_vars

\* a rejected call on a graph that already has an edge
C12_Witness ==
    /\ Len(log) >= 2
    /\ log[Len(log)].op = "add_edge"
    /\ log[Len(log)].v = None /\ log[Len(log)].u # None
    /\ log[Len(log)].err = "GraphError"
    /\ Keys(A.edges) # {}

\* ------------------------------------------------------------ add_clique
\* the history is one add_clique call, made on the empty graph
OneClique == Len(log) >= 1 /\ log[1].op = "add_clique"

\* the unordered pairs of distinct members of S
PairsOf(S) == {P \in SUBSET S : Cardinality(P) = 2}

\* C14: after one add_clique call with weight w on an empty graph every edge
\* has weight exactly w; a Bigraph has one edge per (u, v) of left x right, a
\* Graph one edge per unordered pair of distinct listed vertices
C14_CliqueEdgesHaveWeight ==
    (Len(log) = 1 /\ OneClique) =>
        /\ \A k \in Keys(A.edges) : A.edges[k] = log[1].w
        /\ IF kind = "Graph"
           THEN /\ {{k[1], k[2]} : k \in Keys(A.edges)} = PairsOf(log[1].u)
                /\ Cardinality(Keys(A.edges)) = Cardinality(PairsOf(log[1].u))
           ELSE Keys(A.edges) = log[1].u \X log[1].v

\* C16: a Bigraph whose edges all come from one add_clique((left, right)) call
\* with m >= 1 left and n >= 1 right vertices has m * n distinct edges and
\* get_density() returns 1.0 exactly
C16_CliqueDensityIsOne ==
    (/\ kind = "Bigraph"
     /\ Len(log) = 2 /\ OneClique
     /\ log[1].u # {} /\ log[1].v # {}
     /\ log[2].op = "get_density") =>
        /\ log[2].err = NoError
        /\ ~log[2].ret.none
        /\ log[2].ret.num = log[2].ret.den
        /\ Cardinality(Keys(A.edges))
             = Cardinality(log[1].u) * Cardinality(log[1].v)

\* the density of a 2 x 3 biclique was taken
C16_Witness ==
    /\ kind = "Bigraph"
    /\ Len(log) = 2 /\ OneClique
    /\ Cardinality(log[1].u) = 2 /\ Cardinality(log[1].v) = 3
    /\ log[2].op = "get_density"
    /\ log[2].ret = Quotient(6, 6)

\* ------------------------------------------------------------------ len
\* C15: in every reachable state len(graph) is the number of distinct edge
\* keys whose weight is nonzero
C15_LenCountsNonzeroEdges ==
    GraphLen(A) = Cardinality({k \in Keys(A.edges) : A.edges[k] # 0})

\* ------------------------------------------------------------ self-loops
\* some vertex of g is its own neighbour
HasSelfLoop(g) == \E v \in Keys(g.V2U) : v \in g.V2U[v]

\* C13: no sequence of add_edge, add_clique or rename_nodes calls on a Graph
\* produces a graph in which some vertex is its own neighbour
C13_NoSelfLoops ==
    kind = "Graph" =>
        /\ ~HasSelfLoop(A)
        /\ ren.status = "returned" => ~HasSelfLoop(ren.g)

\* ---------------------------------------------------------- rename_nodes
\* the edges of the source for which a renamer raises SkipEdge
Skipped ==
    {e \in Keys(ren.before.edges) :
        ren.un[e[1]] = Skip \/ ren.vn[e[2]] = Skip}

\* the source edges that are renamed to the edge t
RenamedTo(t) ==
    {e \in Keys(ren.before.edges) \ Skipped :
        IF kind = "Graph" THEN {ren.un[e[1]], ren.vn[e[2]]} = {t[1], t[2]}
        ELSE <<ren.un[e[1]], ren.vn[e[2]]>> = t}

RECURSIVE SumOfEdges(_, _)
SumOfEdges(g, E) ==
    IF E = {} THEN 0
    ELSE LET e == CHOOSE x \in E : TRUE
         IN  g.edges[e] + SumOfEdges(g, E \ {e})

\* C17: when a renamer raises SkipEdge for an edge, rename_nodes (Bigraph and
\* Graph) does not abort; it returns a graph holding every other edge under
\* its renamed endpoints with its weight and nothing of the skipped edge, and
\* the source graph is unchanged
C17_SkipEdgeOmitsOneEdge ==
    (ren.status # "none" /\ Skipped # {}) =>
        /\ ren.status = "returned"
        /\ \A t \in Nodes \X Nodes :
              /\ RenamedTo(t) # {} =>
                    \E k \in Keys(ren.g.edges) :
                        /\ (IF kind = "Graph" THEN {k[1], k[2]} = {t[1], t[2]}
                            ELSE k = t)
                        /\ ren.g.edges[k] = SumOfEdges(ren.before, RenamedTo(t))
              /\ t \in Keys(ren.g.edges) => RenamedTo(t) # {}
        /\ A = ren.before

\* ------------------------------------------------------------ constructors
\* the classes a constructor accepts as base: Bigraph takes its instances
\* (a Graph is one), Graph takes a Graph or a Bigraph
Accepted(cls) == {"Bigraph", "Graph"}

\* C18: constructing a derived graph fails with an error and produces no
\* graph whenever the requested weight_type differs from the base's factory
\* or the base is not of an accepted class (Bigraph and Graph constructors)
C18_MismatchedBaseRejected ==
    (/\ der.status # "none"
     /\ \/ der.baseCls \notin Accepted(der.cls)
        \/ der.weight_type # der.baseFactory) =>
        /\ der.status = "raised"
        /\ der.err # NoError

\* ------------------------------------------------------------- UnionFind
\* the objects ever passed to union or looked up
UfKnown == UNION uf.calls

\* the objects connected to those of `seen` through the union calls made
RECURSIVE UfReach(_)
UfReach(seen) ==
    LET next == seen \cup UNION {c \in uf.calls : c \cap seen # {}}
    IN  IF next = seen THEN seen ELSE UfReach(next)

\* the places (list, index) of the value returned by sets() that hold x
UfPlaces(x) ==
    {<<r, i>> \in Keys(uf.result) \X (1..MaxObj) :
        i <= Len(uf.result[r]) /\ uf.result[r][i] = x}

\* C19: after any sequence of union calls, sets() returns a partition of all
\* objects ever passed to union or looked up: each is in exactly one list, and
\* two objects share a list exactly when the unions made so far connect them
C19_SetsPartitionObjects ==
    uf.status = "sets" =>
        /\ \A x \in UfObjects :
              Cardinality(UfPlaces(x)) = IF x \in UfKnown THEN 1 ELSE 0
        /\ \A r \in Keys(uf.result) : Len(uf.result[r]) >= 1
        /\ \A x \in UfKnown, y \in UfKnown :
              (\E r \in Keys(uf.result) :
                  \E i \in 1..Len(uf.result[r]), j \in 1..Len(uf.result[r]) :
                      uf.result[r][i] = x /\ uf.result[r][j] = y)
              <=> y \in UfReach({x})

\* sets() returned one list of all the objects, joined by two calls of
\* union with two objects each
C19_Witness ==
    /\ uf.status = "sets"
    /\ Cardinality(Keys(uf.result)) = 1
    /\ UfKnown = UfObjects
    /\ Cardinality(uf.calls) = MaxObj - 1
    /\ \A c \in uf.calls : Cardinality(c) = 2

\* ------------------------------------------------------------ RangeQueue
\* the index of the i-th value of the range
RqIndex(i) == rq.start + (i - 1) * rq.step

\* retrieve() has yielded the values of the first indices of the range, in
\* the order of the range, each with the value pushed for it; and when a
\* retrieve() ended, the index after the last one yielded was not pushed:
\* the run it yielded was maximal
RqYieldsRuns ==
    /\ \A i \in 1..Len(rq.out) :
          rq.out[i][1] = RqIndex(i) /\ rq.out[i] \in rq.pushed
    /\ rq.gen = "done" =>
          \A item \in rq.atEnd : item[1] # RqIndex(Len(rq.out) + 1)

\* C20 as stated, for every RangeQueue(start, step): each retrieve() yields
\* exactly the maximal run of pushed, not yet yielded values whose indices
\* continue from the last yielded index; none is skipped or repeated and a
\* value comes only after all values with earlier indices
C20_RetrieveYieldsRuns == RqYieldsRuns

\* C20, amended: the same for a RangeQueue whose step is not negative
C20_RetrieveYieldsRunsForward == rq.step >= 0 => RqYieldsRuns

\* a retrieve() ended after a run of two values pushed out of order, with a
\* later value still waiting behind a gap
C20_Witness ==
    /\ rq.step > 0
    /\ rq.gen = "done"
    /\ Len(rq.run) = 2
    /\ rq.atEnd # {}

\* ------------------------------------------------ adjacency and weights
\* the key under which the edge a - b is stored: the pair as given in a
\* Bigraph, the pair in ascending order in a Graph
KeyOf(g, a, b) ==
    IF g.cls = "Graph" /\ b < a THEN <<b, a>> ELSE <<a, b>>

\* the weight table and the two adjacency maps of g tell the same edges
MapsAgree(g) ==
    /\ \A k \in Keys(g.edges) :
          /\ k[1] \in Keys(g.U2V) /\ k[2] \in g.U2V[k[1]]
          /\ k[2] \in Keys(g.V2U) /\ k[1] \in g.V2U[k[2]]
    /\ \A a \in Keys(g.U2V) : \A b \in g.U2V[a] :
          KeyOf(g, a, b) \in Keys(g.edges)
    /\ \A b \in Keys(g.V2U) : \A a \in g.V2U[b] :
          KeyOf(g, a, b) \in Keys(g.edges)

\* C21: in every reachable state of a graph (the operands, the result of an
\* operator, a yielded component) every key (a, b) of the weight table has b
\* among the forward neighbours of a and a among the backward neighbours of
\* b, and every adjacency pair has its entry under make_edge(a, b)
C21_WeightsAndAdjacencyAgree ==
    /\ MapsAgree(A)
    /\ MapsAgree(B)
    /\ (res.op # "none" /\ res.obj = "R") => MapsAgree(res.g)
    /\ \A i \in 1..Len(gen.out) : MapsAgree(gen.out[i])

\* C22: in every reachable state of a Graph every key of the weight table is
\* the sorted pair (min(a, b), max(a, b)), so each undirected edge has exactly
\* one key
C22_GraphKeysSorted ==
    kind = "Graph" =>
        /\ \A k \in Keys(A.edges) : k[1] <= k[2]
        /\ \A k1 \in Keys(A.edges), k2 \in Keys(A.edges) :
              {k1[1], k1[2]} = {k2[1], k2[2]} => k1 = k2

\* ------------------------------------------------- components and edges
\* the edges of a graph: the keys of a Bigraph, the unordered pairs (or the
\* single vertex of a loop) behind the keys of a Graph
EdgesOf(g) ==
    IF g.cls = "Graph" THEN {{k[1], k[2]} : k \in Keys(g.edges)}
    ELSE Keys(g.edges)

\* C23: the components yielded by find_connected_components() partition the
\* edge set of the source graph: no component has an edge the source lacks,
\* no two components share an edge, and once the generator is exhausted every
\* edge of the source is in one of them
C23_ComponentsPartitionEdges ==
    gen.status # "none" =>
        /\ \A i \in 1..Len(gen.out) :
              EdgesOf(gen.out[i]) \subseteq EdgesOf(gen.before)
        /\ \A i \in 1..Len(gen.out) : \A j \in 1..Len(gen.out) :
              i # j => EdgesOf(gen.out[i]) \cap EdgesOf(gen.out[j]) = {}
        /\ gen.status = "done" =>
              UNION {EdgesOf(gen.out[i]) : i \in 1..Len(gen.out)}
                = EdgesOf(gen.before)

\* an exhausted generator over a graph of two components, one of them a
\* cycle or a path of at least three edges
C23_Witness ==
    /\ gen.status = "done"
    /\ Len(gen.out) = 2
    /\ \E i \in 1..2 : Cardinality(EdgesOf(gen.out[i])) >= 3
    /\ \A i \in 1..2 : EdgesOf(gen.out[i]) # {}

\* C24: every edge of every yielded component carries exactly the weight it
\* has in the source graph, so that from_components of the components of an
\* exhausted generator has the weight table the source had before the call
C24_ComponentsKeepWeights ==
    gen.status # "none" =>
        /\ \A i \in 1..Len(gen.out) :
              \A k \in Keys(gen.out[i].edges) :
                  /\ k \in Keys(gen.before.edges)
                  /\ gen.out[i].edges[k] = gen.before.edges[k]
        /\ gen.status = "done" =>
              from_components(gen.before.cls, NewGraph(gen.before.cls),
                              gen.out, 1).edges = gen.before.edges

\* ------------------------------------------------- bicliques, once each
\* C25: within one Bigraph.find_cliques() enumeration no maximal biclique is
\* emitted twice: two pairs (L, R) yielded at different steps differ in L or
\* in R
C25_NoBicliqueTwice ==
    \A i \in 1..Len(bc.out) : \A j \in 1..Len(bc.out) :
        i # j => bc.out[i] # bc.out[j]

\* an exhausted enumeration that yielded three bicliques or more, over a
\* graph in which two right vertices have the same neighbours
C25_Witness ==
    /\ bc.status = "done"
    /\ Len(bc.out) >= 3
    /\ \E v \in VOf(A), w \in VOf(A) : v # w /\ A.V2U[v] = A.V2U[w]

\* the frames a step of the enumeration puts on the stack
BcPushed == SubSeq(bc'.stack, Len(bc.stack) + 1, Len(bc'.stack))

\* a step of `while P:` leaves the frame a shorter P, and the frames it
\* pushes have a P shorter than the frame's P was
BcShrinks ==
    (bc.status = "running" /\ bc.pc = "inner" /\ bc' # bc) =>
        /\ Len(bc'.cur.P) < Len(bc.cur.P)
        /\ \A i \in 1..Len(BcPushed) : Len(BcPushed[i].P) < Len(bc.cur.P)

\* C26: on every finite Bigraph find_cliques() terminates: every pass of
\* `while P:` strictly shortens the frame's candidate list P, every frame it
\* pushes has a candidate list strictly shorter than its parent's, and a
\* running enumeration reaches the empty stack and ends.
C26_FindCliquesTerminates ==
    /\ [][BcShrinks]_vars
    /\ (bc.status = "running") ~> (bc.status = "done" /\ bc.stack = <<>>)

\* an enumeration that ended after working on a pushed frame
C26_Witness ==
    /\ bc.status = "done"
    /\ bc.stack = <<>>
    /\ bc.cur.R # {}
    /\ Len(bc.out) >= 3

\* the objects that are their own parent
UfRoots == {r \in Keys(uf.parents) : uf.parents[r] = r}

GcCandidates(f) == gc.heap[f.ref].candidates

DensityUndefined(g) ==
    IF g.cls = "Graph" THEN Cardinality(VOf(g)) < 2
    ELSE UOf(g) = {} \/ VOf(g) = {}

\* C29: get_density() never fails its assertion: it returns None when a side
\* is empty (Bigraph) or there are fewer than 2 vertices (Graph), and
\* otherwise a ratio whose numerator is at most its denominator
C29_DensityNeverFails ==
    /\ \A i \in 1..Len(log) :
          log[i].op = "get_density" =>
              /\ log[i].err = NoError
              /\ log[i].ret.none \/ log[i].ret.num <= log[i].ret.den
    /\ (Len(log) >= 1 /\ log[Len(log)].op = "get_density") =>
          (log[Len(log)].ret.none <=> DensityUndefined(A))

\* the step is a vertex-weight query
NodeWeightQueried ==
    /\ Len(log') = Len(log) + 1
    /\ log'[Len(log')].op \in {"get_unode_weight", "get_vnode_weight"}

\* C30: get_unode_weight(node) and get_vnode_weight(node) are read-only:
\* after the query the vertex sets U and V, the weight table, the density and
\* the components find_connected_components() has to yield are what they
\* were before, also when the node is not a vertex of the graph
C30_NodeWeightReadOnly ==
    [][NodeWeightQueried =>
          /\ UOf(A') = UOf(A)
          /\ VOf(A') = VOf(A)
          /\ A'.edges = A.edges
          /\ get_density(A') = get_density(A)
          /\ fcc_remaining(A') = fcc_remaining(A)
          /\ Classes(A') = Classes(A)]_vars

====
